---- MODULE Spec2Model ----
(***************************************************************************)
(* A model of expyriment.py: templates with Candidates placeholders, the  *)
(* discovery of bindings, the cartesian enumeration of their values and    *)
(* the realization of each combination on a deep copy of the template.     *)
(*                                                                         *)
(* Python objects live in a heap (a sequence of objects, an object's       *)
(* identity being its index), so that sharing between the template, the    *)
(* bindings and the realizations is visible.  Integers stand for every     *)
(* immutable scalar and are held by value.                                 *)
(***************************************************************************)
EXTENDS Integers, Sequences, FiniteSets, TLC

\* ------------------------------------------------------------------------
\* Bounds of the model
\* ------------------------------------------------------------------------

\* Largest number of nodes (containers, scalars, placeholders) of a template.
MaxSize == 3

\* Largest number of candidate values held by one placeholder.
MaxCandidates == 2

\* ------------------------------------------------------------------------
\* Program constants: CandidateAccessType
\* ------------------------------------------------------------------------

DATACLASS_ATTR == 1

LIST_ITEM == 2

TUPLE_ITEM == 3

DICT_VALUE == 4

\* ------------------------------------------------------------------------
\* Values, positions, objects
\* ------------------------------------------------------------------------

\* A Python value: an int or a str held by value, a reference to a heap
\* object, or None.
IntV(i) == [tag |-> "int", n |-> i, s |-> ""]

StrV(x) == [tag |-> "str", n |-> 0, s |-> x]

ObjV(id) == [tag |-> "obj", n |-> id, s |-> ""]

None == [tag |-> "none", n |-> 0, s |-> ""]

\* A position inside a container: a field name or a dict key that is a str,
\* or a list/tuple index or a dict key that is an int.
StrPos(name) == [typ |-> "str", s |-> name, n |-> 0]

IntPos(i) == [typ |-> "int", s |-> "", n |-> i]

\* CandidateAccess(access_type, position); NoAccess stands for None passed
\* where a CandidateAccess is expected.
CandidateAccess(t, p) == [access_type |-> t, position |-> p]

NoAccess == [access_type |-> 0, position |-> IntPos(0)]

\* A heap object.  keys holds the field names of a dataclass instance (in
\* declaration order) or the keys of a dict (in insertion order); a list, a
\* tuple and the values of a Candidates object are indexed from 0.
Obj(k, ks, its) == [kind |-> k, keys |-> ks, items |-> its]

\* ------------------------------------------------------------------------
\* Template values as trees (the inputs of the model)
\* ------------------------------------------------------------------------

IntTree(i) == [kind |-> "int", n |-> i, s |-> "", keys |-> <<>>, items |-> <<>>]

StrTree(x) == [kind |-> "str", n |-> 0, s |-> x, keys |-> <<>>, items |-> <<>>]

Tree(k, ks, its) == [kind |-> k, n |-> 0, s |-> "", keys |-> ks, items |-> its]

\* The values a placeholder may offer: a scalar and a mutable list.
ScalarCandidate == IntTree(1)

ListCandidate == Tree("list", <<>>, <<IntTree(7)>>)

\* The candidate lists: the first candidates of 1, 1, [7], 1, 1, [7], ...
\* (a value listed twice) and of [7], 1, [7], 1, ... (different values, the
\* first one mutable).
CandidateLists ==
    { [i \in 1..k |-> IF i % 3 = 0 THEN ListCandidate ELSE ScalarCandidate]
        : k \in 0..MaxCandidates }
    \cup { [i \in 1..k |-> IF i % 2 = 1 THEN ListCandidate ELSE ScalarCandidate]
             : k \in 1..MaxCandidates }

Leaves == {IntTree(5)} \cup {Tree("Candidates", <<>>, vs) : vs \in CandidateLists}

FieldNames == <<StrPos("a"), StrPos("b"), StrPos("c"), StrPos("d"), StrPos("e")>>

\* The keys of a dict of w entries, in insertion order: an int key beside the
\* str of the same digits, or names, one of them holding a dot.
DictKeySeqs(w) ==
    { SubSeq(<<IntPos(1), StrPos("1"), IntPos(2), StrPos("2"), IntPos(3)>>, 1, w),
      SubSeq(<<StrPos("a"), StrPos("a.b"), StrPos("b"), StrPos("c"), StrPos("d")>>, 1, w) }

Containers(f) ==
    { Tree("dataclass", SubSeq(FieldNames, 1, Len(f)), f),
      Tree("list", <<>>, f),
      Tree("tuple", <<>>, f) }
    \cup { Tree("dict", ks, f) : ks \in DictKeySeqs(Len(f)) }

RECURSIVE TreesOfSize(_), ForestsOfSize(_)

\* The trees of exactly n nodes; a placeholder counts for one node.
TreesOfSize(n) ==
    IF n = 1 THEN Leaves
    ELSE UNION { Containers(f) : f \in ForestsOfSize(n - 1) }

\* The non-empty sequences of trees of n nodes in all.
ForestsOfSize(n) ==
    { <<t>> : t \in TreesOfSize(n) }
    \cup UNION { { <<t>> \o f : t \in TreesOfSize(k), f \in ForestsOfSize(n - k) }
                 : k \in 1..(n - 1) }

Templates == UNION { TreesOfSize(n) : n \in 1..MaxSize }

\* ------------------------------------------------------------------------
\* The heap
\* ------------------------------------------------------------------------

RECURSIVE Alloc(_, _), AllocSeq(_, _)

\* Build tree t in heap h: [heap, ref].
Alloc(h, t) ==
    IF t.kind = "int" THEN [heap |-> h, ref |-> IntV(t.n)]
    ELSE IF t.kind = "str" THEN [heap |-> h, ref |-> StrV(t.s)]
    ELSE LET r == AllocSeq(h, t.items)
         IN  [heap |-> Append(r.heap, Obj(t.kind, t.keys, r.refs)),
              ref  |-> ObjV(Len(r.heap) + 1)]

AllocSeq(h, ts) ==
    IF ts = <<>> THEN [heap |-> h, refs |-> <<>>]
    ELSE LET r1 == Alloc(h, Head(ts))
             r2 == AllocSeq(r1.heap, Tail(ts))
         IN  [heap |-> r2.heap, refs |-> <<r1.ref>> \o r2.refs]

RECURSIVE DeepVal(_, _)

\* The value of v in heap h, as a tree (Python's ==, structurally).
DeepVal(h, v) ==
    IF v.tag = "int" THEN IntTree(v.n)
    ELSE IF v.tag = "str" THEN StrTree(v.s)
    ELSE IF v.tag = "none" THEN Tree("None", <<>>, <<>>)
    ELSE LET o == h[v.n]
         IN  Tree(o.kind, o.keys, [i \in 1..Len(o.items) |-> DeepVal(h, o.items[i])])

\* ------------------------------------------------------------------------
\* str() of a position and '.'.join
\* ------------------------------------------------------------------------

Digits == <<"0", "1", "2", "3", "4", "5", "6", "7", "8", "9">>

RECURSIVE NatStr(_)

NatStr(i) ==
    IF i < 10 THEN Digits[i + 1]
    ELSE NatStr(i \div 10) \o Digits[(i % 10) + 1]

\* str(position): the decimal digits of an int, a str as it is.
Str(p) ==
    IF p.typ = "int"
    THEN (IF p.n < 0 THEN "-" \o NatStr(0 - p.n) ELSE NatStr(p.n))
    ELSE p.s

RECURSIVE Join(_, _)

\* sep.join(strs)
Join(sep, strs) ==
    IF strs = <<>> THEN ""
    ELSE IF Len(strs) = 1 THEN strs[1]
    ELSE strs[1] \o sep \o Join(sep, Tail(strs))

\* ------------------------------------------------------------------------
\* Attribute and item access of Python objects
\* ------------------------------------------------------------------------

\* The first index of position p in keys, 0 when absent.
IndexOf(keys, p) ==
    IF \E i \in 1..Len(keys) : keys[i] = p
    THEN CHOOSE i \in 1..Len(keys) : keys[i] = p /\ \A j \in 1..(i - 1) : keys[j] # p
    ELSE 0

IsObj(h, v, kinds) == v.tag = "obj" /\ h[v.n].kind \in kinds

\* A sequence index as Python resolves it (negative indices count from the
\* end): the 1-based slot, 0 when out of range.
Slot(len, p) ==
    IF p.n >= 0 /\ p.n < len THEN p.n + 1
    ELSE IF p.n < 0 /\ p.n >= 0 - len THEN len + p.n + 1
    ELSE 0

\* getattr(container, name)
GetAttr(h, container, p) ==
    IF IsObj(h, container, {"dataclass"}) /\ IndexOf(h[container.n].keys, p) # 0
    THEN [err |-> "", val |-> h[container.n].items[IndexOf(h[container.n].keys, p)]]
    ELSE [err |-> "AttributeError", val |-> None]

\* container[position]
GetItem(h, container, p) ==
    IF IsObj(h, container, {"list", "tuple"})
    THEN LET o == h[container.n]
         IN  IF p.typ # "int" THEN [err |-> "TypeError", val |-> None]
             ELSE IF Slot(Len(o.items), p) = 0 THEN [err |-> "IndexError", val |-> None]
             ELSE [err |-> "", val |-> o.items[Slot(Len(o.items), p)]]
    ELSE IF IsObj(h, container, {"dict"})
    THEN LET o == h[container.n]
         IN  IF IndexOf(o.keys, p) = 0 THEN [err |-> "KeyError", val |-> None]
             ELSE [err |-> "", val |-> o.items[IndexOf(o.keys, p)]]
    ELSE [err |-> "TypeError", val |-> None]

\* setattr(container, name, value): an instance of a dataclass takes any
\* attribute, a new one included.
SetAttr(h, container, p, value) ==
    IF IsObj(h, container, {"dataclass", "Candidates"})
    THEN LET o == h[container.n]
             i == IndexOf(o.keys, p)
         IN  IF i # 0
             THEN [heap |-> [h EXCEPT ![container.n].items[i] = value], err |-> ""]
             ELSE [heap |-> [h EXCEPT ![container.n] =
                                Obj(o.kind, Append(o.keys, p), Append(o.items, value))],
                   err |-> ""]
    ELSE [heap |-> h, err |-> "AttributeError"]

\* container[position] = value
SetItem(h, container, p, value) ==
    IF IsObj(h, container, {"list"})
    THEN LET o == h[container.n]
         IN  IF p.typ # "int" THEN [heap |-> h, err |-> "TypeError"]
             ELSE IF Slot(Len(o.items), p) = 0 THEN [heap |-> h, err |-> "IndexError"]
             ELSE [heap |-> [h EXCEPT ![container.n].items[Slot(Len(o.items), p)] = value],
                   err |-> ""]
    ELSE IF IsObj(h, container, {"dict"})
    THEN LET o == h[container.n]
             i == IndexOf(o.keys, p)
         IN  IF i # 0
             THEN [heap |-> [h EXCEPT ![container.n].items[i] = value], err |-> ""]
             ELSE [heap |-> [h EXCEPT ![container.n] =
                                Obj(o.kind, Append(o.keys, p), Append(o.items, value))],
                   err |-> ""]
    ELSE [heap |-> h, err |-> "TypeError"]

\* What enumerate(container) goes through: the items of a list or a tuple,
\* the keys of a dict.
Iterate(h, container) ==
    IF IsObj(h, container, {"list", "tuple"}) THEN h[container.n].items
    ELSE LET ks == h[container.n].keys
         IN  [i \in 1..Len(ks) |->
                 IF ks[i].typ = "int" THEN IntV(ks[i].n) ELSE StrV(ks[i].s)]

\* ------------------------------------------------------------------------
\* _getter, _setter
\* ------------------------------------------------------------------------

_getter(h, container, access) ==
    IF access = NoAccess THEN [err |-> "AttributeError", val |-> None]
    ELSE IF access.access_type = DATACLASS_ATTR
    THEN GetAttr(h, container, access.position)
    ELSE GetItem(h, container, access.position)

\* NewTuple with the slot compared to the item's rank counted from 1.
NewTupleFromOne(h, container, access, value) ==
    LET its == Iterate(h, container)
    IN  Obj("tuple", <<>>,
            [i \in 1..Len(its) |->
                IF access.position = IntPos(i) THEN value ELSE its[i]])

\* The tuple built by _setter: container's items with value at access.position.
NewTuple(h, container, access, value) ==
    LET its == Iterate(h, container)
    IN  Obj("tuple", <<>>,
            [i \in 1..Len(its) |->
                IF access.position = IntPos(i - 1) THEN value ELSE its[i]])

RECURSIVE _setter(_, _, _, _, _, _)

\* [heap, err]: the heap after the call and the exception raised, "" if none.
_setter(h, container, access, value, parent, parent_access) ==
    IF access = NoAccess THEN [heap |-> h, err |-> "AttributeError"]
    ELSE IF access.access_type = DATACLASS_ATTR
    THEN SetAttr(h, container, access.position, value)
    ELSE IF access.access_type = TUPLE_ITEM
    THEN IF ~IsObj(h, container, {"list", "tuple", "dict"})
         THEN [heap |-> h, err |-> "TypeError"]
         ELSE LET h2 == Append(h, NewTuple(h, container, access, value))
              IN  _setter(h2, parent, parent_access, ObjV(Len(h2)), None, NoAccess)
    ELSE SetItem(h, container, access.position, value)

\* ------------------------------------------------------------------------
\* BindingRealization, Binding, TemplateRealization
\* ------------------------------------------------------------------------

BindingRealization(p, v) == [path |-> p, value |-> v]

Binding(p, vs) == [path |-> p, values |-> vs]

TemplateRealization(sp, real) == [specification |-> sp, realization |-> real]

RECURSIVE Walk(_, _, _, _, _)

\* The loop of apply over path[:-1].
Walk(h, container, parent, parent_item, items) ==
    IF items = <<>>
    THEN [err |-> "", container |-> container, parent |-> parent,
          parent_item |-> parent_item]
    ELSE LET g == _getter(h, container, Head(items))
         IN  IF g.err # ""
             THEN [err |-> g.err, container |-> container, parent |-> parent,
                   parent_item |-> parent_item]
             ELSE Walk(h, g.val, container, Head(items), Tail(items))

\* BindingRealization.apply: [heap, err].
apply(h, self, container) ==
    LET w == Walk(h, container, None, NoAccess, SubSeq(self.path, 1, Len(self.path) - 1))
    IN  IF w.err # "" THEN [heap |-> h, err |-> w.err]
        ELSE IF self.path = <<>> THEN [heap |-> h, err |-> "IndexError"]
        ELSE _setter(h, w.container, self.path[Len(self.path)], self.value,
                     w.parent, w.parent_item)

\* The dotted key of a path.
Dotted(path) == Join(".", [i \in 1..Len(path) |-> Str(path[i].position)])

\* BindingRealization.get_specification: a dict of one entry.
get_specification(self) == <<[key |-> Dotted(self.path), value |-> self.value]>>

\* dict.update on a dict held as the sequence of its entries, in insertion
\* order: an entry whose key is there replaces the value, another is added.
DictUpdate(d, other) ==
    LET upd[i \in 0..Len(other)] ==
            IF i = 0 THEN d
            ELSE LET e == other[i]
                     cur == upd[i - 1]
                 IN  IF \E j \in 1..Len(cur) : cur[j].key = e.key
                     THEN [j \in 1..Len(cur) |->
                              IF cur[j].key = e.key THEN e ELSE cur[j]]
                     ELSE Append(cur, e)
    IN  upd[Len(other)]

\* realize giving None as the only value of a binding without candidate.
realize_none_when_empty(self) ==
    IF self.values = <<>> THEN <<BindingRealization(self.path, None)>>
    ELSE [i \in 1..Len(self.values) |-> BindingRealization(self.path, self.values[i])]

\* Binding.realize, consumed whole.
realize(self) ==
    [i \in 1..Len(self.values) |-> BindingRealization(self.path, self.values[i])]

\* ------------------------------------------------------------------------
\* Discovery
\* ------------------------------------------------------------------------

RECURSIVE _get_bindings(_, _, _)
RECURSIVE _get_bindings_from_class(_, _, _)
RECURSIVE _get_bindings_from_list(_, _, _)
RECURSIVE _get_bindings_from_tuple(_, _, _)
RECURSIVE _get_bindings_from_dict(_, _, _)

\* _get_bindings going on into the values of a Candidates object, as into
\* the items of a list.
_get_bindings_into_values(h, path, container) ==
    IF IsObj(h, container, {"Candidates"})
    THEN <<Binding(path, h[container.n].items)>>
         \o _get_bindings_from_list(h, path, container)
    ELSE IF IsObj(h, container, {"dataclass"})
    THEN _get_bindings_from_class(h, path, container)
    ELSE IF IsObj(h, container, {"list"})
    THEN _get_bindings_from_list(h, path, container)
    ELSE IF IsObj(h, container, {"tuple"})
    THEN _get_bindings_from_tuple(h, path, container)
    ELSE IF IsObj(h, container, {"dict"})
    THEN _get_bindings_from_dict(h, path, container)
    ELSE <<>>

_get_bindings(h, path, container) ==
    IF IsObj(h, container, {"Candidates"})
    THEN <<Binding(path, h[container.n].items)>>
    ELSE IF IsObj(h, container, {"dataclass"})
    THEN _get_bindings_from_class(h, path, container)
    ELSE IF IsObj(h, container, {"list"})
    THEN _get_bindings_from_list(h, path, container)
    ELSE IF IsObj(h, container, {"tuple"})
    THEN _get_bindings_from_tuple(h, path, container)
    ELSE IF IsObj(h, container, {"dict"})
    THEN _get_bindings_from_dict(h, path, container)
    ELSE <<>>

_get_bindings_from_class(h, path, container) ==
    LET o == h[container.n]
        loop[i \in 0..Len(o.items)] ==
            IF i = 0 THEN <<>>
            ELSE loop[i - 1] \o
                 _get_bindings(h, Append(path, CandidateAccess(DATACLASS_ATTR, o.keys[i])),
                               o.items[i])
    IN  loop[Len(o.items)]

_get_bindings_from_list(h, path, container) ==
    LET o == h[container.n]
        loop[i \in 0..Len(o.items)] ==
            IF i = 0 THEN <<>>
            ELSE loop[i - 1] \o
                 _get_bindings(h, Append(path, CandidateAccess(LIST_ITEM, IntPos(i - 1))),
                               o.items[i])
    IN  loop[Len(o.items)]

_get_bindings_from_tuple(h, path, container) ==
    LET o == h[container.n]
        loop[i \in 0..Len(o.items)] ==
            IF i = 0 THEN <<>>
            ELSE loop[i - 1] \o
                 _get_bindings(h, Append(path, CandidateAccess(TUPLE_ITEM, IntPos(i - 1))),
                               o.items[i])
    IN  loop[Len(o.items)]

_get_bindings_from_dict(h, path, container) ==
    LET o == h[container.n]
        loop[i \in 0..Len(o.items)] ==
            IF i = 0 THEN <<>>
            ELSE loop[i - 1] \o
                 _get_bindings(h, Append(path, CandidateAccess(DICT_VALUE, o.keys[i])),
                               o.items[i])
    IN  loop[Len(o.items)]

\* ------------------------------------------------------------------------
\* copy.deepcopy
\* ------------------------------------------------------------------------

RECURSIVE deepcopy(_, _)

\* [heap, ref].  Atomic values are returned as they are; a tuple whose items
\* all copy to themselves is returned as it is; any other object is copied
\* into a new one.  The memo of deepcopy is left out: no object of a template
\* is reachable along two paths.
deepcopy(h, x) ==
    IF x.tag # "obj" THEN [heap |-> h, ref |-> x]
    ELSE LET o == h[x.n]
             c[i \in 0..Len(o.items)] ==
                 IF i = 0 THEN [heap |-> h, refs |-> <<>>]
                 ELSE LET r == deepcopy(c[i - 1].heap, o.items[i])
                      IN  [heap |-> r.heap, refs |-> Append(c[i - 1].refs, r.ref)]
             r == c[Len(o.items)]
         IN  IF o.kind = "tuple" /\ r.refs = o.items
             THEN [heap |-> r.heap, ref |-> x]
             ELSE [heap |-> Append(r.heap, Obj(o.kind, o.keys, r.refs)),
                   ref  |-> ObjV(Len(r.heap) + 1)]

\* ------------------------------------------------------------------------
\* _realize, itertools.product, count_realizations
\* ------------------------------------------------------------------------

\* [heap, err, value]: the heap after the call, the exception raised ("" if
\* none) and the TemplateRealization returned.
_realize(h, tmpl, binding_realizations) ==
    LET real == deepcopy(h, tmpl)
        loop[i \in 0..Len(binding_realizations)] ==
            IF i = 0 THEN [heap |-> real.heap, err |-> "", specification |-> <<>>]
            ELSE LET p == loop[i - 1]
                     br == binding_realizations[i]
                     a == apply(p.heap, br, real.ref)
                 IN  IF p.err # "" THEN p
                     ELSE [heap |-> a.heap, err |-> a.err,
                           specification |->
                               DictUpdate(p.specification, get_specification(br))]
        r == loop[Len(binding_realizations)]
    IN  [heap |-> r.heap, err |-> r.err,
         value |-> TemplateRealization(r.specification, real.ref)]

\* The pools of product(*(binding.realize() for binding in bindings)).
Pools(bindings) == [i \in 1..Len(bindings) |-> realize(bindings[i])]

\* ProductFirst giving nothing when there is no pool at all.
ProductFirstNeedsPool(pools) ==
    IF pools = <<>> \/ \E i \in 1..Len(pools) : pools[i] = <<>>
    THEN [stop |-> TRUE, indices |-> <<>>]
    ELSE [stop |-> FALSE, indices |-> [i \in 1..Len(pools) |-> 0]]

\* itertools.product: the indices (from 0) of its first tuple.
ProductFirst(pools) ==
    IF \E i \in 1..Len(pools) : pools[i] = <<>>
    THEN [stop |-> TRUE, indices |-> <<>>]
    ELSE [stop |-> FALSE, indices |-> [i \in 1..Len(pools) |-> 0]]

\* ProductNext with the leftmost index advancing first.
ProductNextLeftFastest(pools, indices) ==
    LET can == {i \in 1..Len(pools) : indices[i] + 1 < Len(pools[i])}
    IN  IF can = {} THEN [stop |-> TRUE, indices |-> indices]
        ELSE LET m == CHOOSE i \in can : \A j \in can : j >= i
             IN  [stop |-> FALSE,
                  indices |-> [i \in 1..Len(pools) |->
                                 IF i > m THEN indices[i]
                                 ELSE IF i = m THEN indices[i] + 1
                                 ELSE 0]]

\* itertools.product: the indices of the tuple after the one at indices; the
\* rightmost index that can advance does, those to its right go back to 0.
ProductNext(pools, indices) ==
    LET can == {i \in 1..Len(pools) : indices[i] + 1 < Len(pools[i])}
    IN  IF can = {} THEN [stop |-> TRUE, indices |-> indices]
        ELSE LET m == CHOOSE i \in can : \A j \in can : j <= i
             IN  [stop |-> FALSE,
                  indices |-> [i \in 1..Len(pools) |->
                                 IF i < m THEN indices[i]
                                 ELSE IF i = m THEN indices[i] + 1
                                 ELSE 0]]

\* The tuple of BindingRealizations at indices.
ProductTuple(pools, indices) == [i \in 1..Len(pools) |-> pools[i][indices[i] + 1]]

\* count_realizations counting each binding's values once when listed twice.
count_realizations_distinct(h, tmpl) ==
    LET bs == _get_bindings(h, <<>>, tmpl)
        count[i \in 0..Len(bs)] ==
            IF i = 0 THEN 1
            ELSE count[i - 1]
                   * Cardinality({bs[i].values[j] : j \in 1..Len(bs[i].values)})
    IN  count[Len(bs)]

count_realizations(h, tmpl) ==
    LET bs == _get_bindings(h, <<>>, tmpl)
        count[i \in 0..Len(bs)] ==
            IF i = 0 THEN 1 ELSE count[i - 1] * Len(bs[i].values)
    IN  count[Len(bs)]

\* ------------------------------------------------------------------------
\* State
\* ------------------------------------------------------------------------

VARIABLES
    heap,       \* the objects
    template,   \* the template handed to count_realizations and realize_template
    counted,    \* what count_realizations returned, <<>> before it is called
    gen,        \* the generator of realize_template: "none" (not called),
                \* "created", "suspended" (at its yield), "exhausted", "raised"
    pools,      \* the pools of the product, built when the generator starts
    indices,    \* the indices of the last tuple the product gave
    tuples,     \* the tuples the product gave so far, in order
    yielded,    \* the TemplateRealizations yielded so far, in order
    error,      \* the exception that ended the generator, "" if none
    bindings,   \* the bindings _get_bindings([], template) gave the generator
    discoveries,\* how many times the generator ran _get_bindings([], template)
    clones,     \* how many times the generator ran deepcopy(template)
    pulls       \* how many items were asked of the generator

vars == <<heap, template, counted, gen, pools, indices, tuples, yielded, error,
          bindings, discoveries, clones, pulls>>

Init ==
    \E t \in Templates :
        LET r == Alloc(<<>>, t)
        IN  /\ heap = r.heap
            /\ template = r.ref
            /\ counted = <<>>
            /\ gen = "none"
            /\ pools = <<>>
            /\ indices = <<>>
            /\ tuples = <<>>
            /\ yielded = <<>>
            /\ error = ""
            /\ bindings = <<>>
            /\ discoveries = 0
            /\ clones = 0
            /\ pulls = 0

\* count_realizations(template), called before realize_template or once its
\* generator has ended.
CountRealizations ==
    /\ counted = <<>>
    /\ gen \in {"none", "exhausted", "raised"}
    /\ counted' = <<count_realizations(heap, template)>>
    /\ UNCHANGED <<heap, template, gen, pools, indices, tuples, yielded, error,
                   bindings, discoveries, clones, pulls>>

\* RealizeTemplate running the discovery as soon as it is called.
RealizeTemplateEager ==
    /\ gen = "none"
    /\ gen' = "created"
    /\ bindings' = _get_bindings(heap, <<>>, template)
    /\ discoveries' = discoveries + 1
    /\ UNCHANGED <<heap, template, counted, pools, indices, tuples, yielded, error,
                   clones, pulls>>

\* realize_template(template): a generator function, nothing of its body
\* runs before the first item is asked for.
RealizeTemplate ==
    /\ gen = "none"
    /\ gen' = "created"
    /\ UNCHANGED <<heap, template, counted, pools, indices, tuples, yielded, error,
                   bindings, discoveries, clones, pulls>>

\* next() on the generator: at the first call _get_all_binding_realizations
\* runs the discovery and builds the product; then the product gives its next
\* tuple, _realize is applied to it and the result is yielded.
Pull ==
    /\ gen \in {"created", "suspended"}
    /\ pulls' = pulls + 1
    /\ LET bs == IF gen = "created" THEN _get_bindings(heap, <<>>, template) ELSE bindings
           ps == IF gen = "created" THEN Pools(bs) ELSE pools
           nx == IF gen = "created" THEN ProductFirst(ps) ELSE ProductNext(ps, indices)
       IN  /\ bindings' = bs
           /\ discoveries' = IF gen = "created" THEN discoveries + 1 ELSE discoveries
           /\ pools' = ps
           /\ IF nx.stop
              THEN /\ gen' = "exhausted"
                   /\ UNCHANGED <<heap, indices, tuples, yielded, error, clones>>
              ELSE LET brs == ProductTuple(ps, nx.indices)
                       r == _realize(heap, template, brs)
                   IN  /\ clones' = clones + 1
                       /\ indices' = nx.indices
                       /\ tuples' = Append(tuples, brs)
                       /\ heap' = r.heap
                       /\ error' = r.err
                       /\ IF r.err # ""
                          THEN gen' = "raised" /\ UNCHANGED yielded
                          ELSE gen' = "suspended" /\ yielded' = Append(yielded, r.value)
    /\ UNCHANGED <<template, counted>>

Next ==
    \/ CountRealizations
    \/ RealizeTemplate
    \/ Pull

Spec == Init /\ [][Next]_vars

\* ------------------------------------------------------------------------
\* The template read as a value: its placeholders in depth-first pre-order
\* ------------------------------------------------------------------------

TemplateTree == DeepVal(heap, template)

\* The step from container t to its i-th item.
StepOf(t, i) ==
    IF t.kind = "dataclass" THEN CandidateAccess(DATACLASS_ATTR, t.keys[i])
    ELSE IF t.kind = "list" THEN CandidateAccess(LIST_ITEM, IntPos(i - 1))
    ELSE IF t.kind = "tuple" THEN CandidateAccess(TUPLE_ITEM, IntPos(i - 1))
    ELSE CandidateAccess(DICT_VALUE, t.keys[i])

RECURSIVE TreePlaceholders(_, _)

\* The placeholders of tree t, each with the path to it and its candidates.
TreePlaceholders(t, path) ==
    IF t.kind = "Candidates" THEN <<[path |-> path, values |-> t.items]>>
    ELSE IF t.kind \in {"dataclass", "list", "tuple", "dict"}
    THEN LET f[i \in 0..Len(t.items)] ==
                 IF i = 0 THEN <<>>
                 ELSE f[i - 1] \o TreePlaceholders(t.items[i], Append(path, StepOf(t, i)))
         IN  f[Len(t.items)]
    ELSE <<>>

Placeholders == TreePlaceholders(TemplateTree, <<>>)

\* The combinations of one candidate (by its rank) per placeholder.
Combinations ==
    LET phs == Placeholders
    IN  { c \in [1..Len(phs) -> 1..MaxCandidates] :
            \A i \in 1..Len(phs) : c[i] <= Len(phs[i].values) }

\* The generator of realize_template was run to its end.
Consumed == gen \in {"exhausted", "raised"}

\* ------------------------------------------------------------------------
\* C1
\* ------------------------------------------------------------------------

\* C1 (as claimed): for every template, count_realizations(t) equals the
\* number of TemplateRealizations produced by fully consuming
\* realize_template(t), which ends without an exception.
C1_CountEqualsNumberYielded ==
    (Consumed /\ counted # <<>>) =>
        (gen = "exhausted" /\ counted[1] = Len(yielded))

\* ------------------------------------------------------------------------
\* C4
\* ------------------------------------------------------------------------

\* C4: count_realizations(t) is the product of the numbers of candidates of
\* the placeholders of t, that is the number of ways to pick one candidate,
\* by its rank, in each: 1 without placeholder, 0 when a placeholder has no
\* candidate, a value listed twice counting twice.
C4_CountIsProductOfCardinalities ==
    counted # <<>> =>
        LET phs == Placeholders
        IN  /\ counted[1] = Cardinality(Combinations)
            /\ (phs = <<>> => counted[1] = 1)
            /\ ((\E i \in 1..Len(phs) : phs[i].values = <<>>) => counted[1] = 0)

\* C4 witness: the count of a template with two placeholders of two
\* candidates each, one of them listing the same value twice.
C4_Witness ==
    /\ counted = <<4>>
    /\ Len(Placeholders) = 2
    /\ \E i \in 1..2 : /\ Len(Placeholders[i].values) = 2
                       /\ Placeholders[i].values[1] = Placeholders[i].values[2]

\* ------------------------------------------------------------------------
\* C8
\* ------------------------------------------------------------------------

\* C8: for a template without placeholder, realize_template raises nothing
\* and yields exactly one TemplateRealization, of empty specification and of
\* realization equal in value to the template.
C8_NoPlaceholderYieldsOneCopy ==
    LET tree == TemplateTree
    IN  TreePlaceholders(tree, <<>>) = <<>> =>
            /\ gen # "raised"
            /\ error = ""
            /\ gen = "suspended" => Len(yielded) = 1
            /\ gen = "exhausted" => Len(yielded) = 1
            /\ \A k \in 1..Len(yielded) :
                  /\ yielded[k].specification = <<>>
                  /\ DeepVal(heap, yielded[k].realization) = tree

\* C8 witness: the generator is exhausted on a container without
\* placeholder, after it yielded its copy, a new object.
C8_Witness ==
    /\ Placeholders = <<>>
    /\ template.tag = "obj"
    /\ gen = "exhausted"
    /\ Len(yielded) = 1
    /\ yielded[1].realization # template

\* ------------------------------------------------------------------------
\* C9
\* ------------------------------------------------------------------------

HasEmptyPlaceholder ==
    LET phs == Placeholders
    IN  \E i \in 1..Len(phs) : phs[i].values = <<>>

\* C9: when a placeholder of the template has no candidate, whatever the
\* others hold, count_realizations returns 0 and realize_template ends at the
\* first pull, having yielded nothing and raised nothing.
C9_EmptyPlaceholderYieldsNothing ==
    HasEmptyPlaceholder =>
        /\ counted # <<>> => counted[1] = 0
        /\ gen \in {"none", "created", "exhausted"}
        /\ yielded = <<>>
        /\ error = ""

\* C9 witness: the generator is exhausted and the count is 0 on a template
\* with an empty placeholder and another one of two candidates before it.
C9_Witness ==
    /\ gen = "exhausted"
    /\ counted = <<0>>
    /\ Len(Placeholders) >= 2
    /\ Len(Placeholders[1].values) = 2
    /\ Placeholders[Len(Placeholders)].values = <<>>

\* ------------------------------------------------------------------------
\* Reading a realization
\* ------------------------------------------------------------------------

\* The bindings discovered in the template.
Bindings == _get_bindings(heap, <<>>, template)

RECURSIVE ReadPath(_, _, _)

\* The value found from v along path, None when a step fails.
ReadPath(h, v, path) ==
    IF path = <<>> THEN v
    ELSE LET g == _getter(h, v, Head(path))
         IN  IF g.err # "" THEN None ELSE ReadPath(h, g.val, Tail(path))

\* A specification as a value: its entries, each value read in the heap.
SpecVal(h, sp) == { <<sp[j].key, DeepVal(h, sp[j].value)>> : j \in 1..Len(sp) }

\* ------------------------------------------------------------------------
\* C3
\* ------------------------------------------------------------------------

\* The number of combinations of the bindings after the i-th.
RECURSIVE Weight(_, _)

Weight(bs, i) ==
    IF i >= Len(bs) THEN 1 ELSE Len(bs[i + 1].values) * Weight(bs, i + 1)

\* The rank (from 0) of the candidate of the i-th binding in the m-th
\* combination (from 0) of the mixed-radix order, last binding fastest.
Digit(bs, m, i) == (m \div Weight(bs, i)) % Len(bs[i].values)

\* C3: the k-th tuple of the product, and the k-th realization yielded, hold
\* for each binding the candidate whose rank is the binding's digit of k - 1
\* in the mixed-radix order where the last-discovered binding varies fastest
\* and the first-discovered slowest.
C3_MixedRadixOrder ==
    LET bs == Bindings
    IN  \A k \in 1..Len(tuples) :
            \A i \in 1..Len(bs) :
                LET chosen == bs[i].values[Digit(bs, k - 1, i) + 1]
                IN  /\ Len(tuples[k]) = Len(bs)
                    /\ tuples[k][i] = BindingRealization(bs[i].path, chosen)
                    /\ k <= Len(yielded) =>
                          ReadPath(heap, yielded[k].realization, bs[i].path) = chosen

\* C3 witness: the four realizations of a template with two bindings of two
\* different candidates each were yielded.
C3_Witness ==
    /\ gen = "exhausted"
    /\ Len(yielded) = 4
    /\ Len(Bindings) = 2
    /\ \A i \in 1..2 : /\ Len(Bindings[i].values) = 2
                       /\ Bindings[i].values[1] # Bindings[i].values[2]

\* ------------------------------------------------------------------------
\* C5
\* ------------------------------------------------------------------------

RECURSIVE SubstTree(_, _)

\* Tree t with its placeholders replaced, in pre-order, by the trees of vals:
\* [tree, rest], rest being the trees left.
SubstTree(t, vals) ==
    IF t.kind = "Candidates" THEN [tree |-> Head(vals), rest |-> Tail(vals)]
    ELSE IF t.kind \in {"dataclass", "list", "tuple", "dict"}
    THEN LET f[i \in 0..Len(t.items)] ==
                 IF i = 0 THEN [trees |-> <<>>, rest |-> vals]
                 ELSE LET r == SubstTree(t.items[i], f[i - 1].rest)
                      IN  [trees |-> Append(f[i - 1].trees, r.tree), rest |-> r.rest]
         IN  [tree |-> Tree(t.kind, t.keys, f[Len(t.items)].trees),
              rest |-> f[Len(t.items)].rest]
    ELSE [tree |-> t, rest |-> vals]

\* C5: in every TemplateRealization yielded, the realization read along each
\* binding's path gives the candidate chosen for that binding, no placeholder
\* remains, and the realization equals in value the template with each
\* placeholder replaced by its chosen candidate and every other position as
\* it is in the template.
C5_RealizationIsSubstitutedTemplate ==
    LET tree == TemplateTree
        phs == TreePlaceholders(tree, <<>>)
    IN  \A k \in 1..Len(yielded) :
            LET real == yielded[k].realization
                val == DeepVal(heap, real)
                chosen == [i \in 1..Len(tuples[k]) |-> DeepVal(heap, tuples[k][i].value)]
            IN  /\ Len(tuples[k]) = Len(phs)
                /\ \A i \in 1..Len(phs) :
                      ReadPath(heap, real, phs[i].path) = tuples[k][i].value
                /\ TreePlaceholders(val, <<>>) = <<>>
                /\ val = SubstTree(tree, chosen).tree

\* The kinds of the containers that hold a placeholder directly.
HolderKinds ==
    { Bindings[i].path[Len(Bindings[i].path)].access_type : i \in 1..Len(Bindings) }

\* C5 witness: the two realizations of a template were yielded, whose
\* placeholder sits in a tuple held by a dict and offers a list first.
C5_Witness ==
    /\ Len(yielded) = 2
    /\ Len(Bindings) = 1
    /\ HolderKinds = {TUPLE_ITEM}
    /\ Len(Bindings[1].path) = 2
    /\ Bindings[1].path[1].access_type = DICT_VALUE
    /\ tuples[1][1].value.tag = "obj"

\* ------------------------------------------------------------------------
\* C6
\* ------------------------------------------------------------------------

\* C6 (as claimed): the specification of every TemplateRealization yielded has
\* exactly one entry per binding discovered: its key is the positions of the
\* binding's path, each stringified, joined by '.', and its value is the
\* candidate chosen for that binding.
C6_OneEntryPerBinding ==
    \A k \in 1..Len(yielded) :
        LET sp == yielded[k].specification
        IN  /\ Len(sp) = Len(Bindings)
            /\ \A i \in 1..Len(Bindings) :
                  \E j \in 1..Len(sp) :
                      /\ sp[j].key = Dotted(Bindings[i].path)
                      /\ sp[j].value = tuples[k][i].value

\* ------------------------------------------------------------------------
\* C7
\* ------------------------------------------------------------------------

\* C7 (as claimed): realize_template, run to its end, has yielded as many
\* realizations as the product of the placeholders' cardinalities, and no two
\* realizations yielded have the same specification map.
C7_ProductManyDistinctSpecifications ==
    /\ Consumed => (gen = "exhausted" /\ Len(yielded) = Cardinality(Combinations))
    /\ \A j, k \in 1..Len(yielded) :
          j # k => SpecVal(heap, yielded[j].specification)
                     # SpecVal(heap, yielded[k].specification)

\* ------------------------------------------------------------------------
\* C10
\* ------------------------------------------------------------------------

\* The templates of one more node, where a tuple lies in a tuple that lies in
\* a container set in place.
InitNested ==
    \E t \in Templates \cup TreesOfSize(MaxSize + 1) :
        LET r == Alloc(<<>>, t)
        IN  /\ heap = r.heap
            /\ template = r.ref
            /\ counted = <<>>
            /\ gen = "none"
            /\ pools = <<>>
            /\ indices = <<>>
            /\ tuples = <<>>
            /\ yielded = <<>>
            /\ error = ""
            /\ bindings = <<>>
            /\ discoveries = 0
            /\ clones = 0
            /\ pulls = 0

SpecNested == InitNested /\ [][Next]_vars

\* The path goes through a container that is set in place, so that a rewrite
\* of tuples along it never has to replace the root.
ThroughMutable(path) == \E j \in 1..Len(path) : path[j].access_type # TUPLE_ITEM

InTuple(path) == path # <<>> /\ path[Len(path)].access_type = TUPLE_ITEM

\* C10 (as claimed): setting the slot of a tuple that is not the root never
\* changes a tuple: a new tuple is built, equal to the old one but for the
\* slot, and set in the parent at the parent's step, whatever the parent is
\* (dataclass, list, dict, or a tuple again, the rewrite then going upward);
\* so no realization fails and each holds, at the tuple's place, a tuple with
\* the chosen value in the slot.
C10_TupleSlotRewrite ==
    /\ [][\A id \in 1..Len(heap) :
             heap[id].kind = "tuple" => heap'[id] = heap[id]]_vars
    /\ []((\A i \in 1..Len(Bindings) : ThroughMutable(Bindings[i].path)) =>
            /\ error = ""
            /\ \A k \in 1..Len(yielded) :
                  \A i \in 1..Len(Bindings) :
                      InTuple(Bindings[i].path) =>
                          LET path == Bindings[i].path
                              t == ReadPath(heap, yielded[k].realization,
                                            SubSeq(path, 1, Len(path) - 1))
                          IN  /\ IsObj(heap, t, {"tuple"})
                              /\ heap[t.n].items[path[Len(path)].position.n + 1]
                                    = tuples[k][i].value)

\* ------------------------------------------------------------------------
\* C2: the caller writes into a realization it was given
\* ------------------------------------------------------------------------

RECURSIVE Reach(_, _)

\* The objects reachable from v.
Reach(h, v) ==
    IF v.tag # "obj" THEN {}
    ELSE {v.n} \cup UNION { Reach(h, h[v.n].items[i]) : i \in 1..Len(h[v.n].items) }

\* The value the caller writes.
Marker == IntV(99)

MarkerWritten == \E id \in 1..Len(heap) : \E i \in 1..Len(heap[id].items) :
                    heap[id].items[i] = Marker

\* The caller sets an item of a list, a value of a dict or a field of a
\* dataclass instance found in the realization of the k-th TemplateRealization
\* it was given; it does so once.
Mutate(k) ==
    /\ ~MarkerWritten
    /\ \E id \in Reach(heap, yielded[k].realization) :
          /\ heap[id].kind \in {"list", "dict", "dataclass"}
          /\ \E i \in 1..Len(heap[id].items) :
                heap' = [heap EXCEPT ![id].items[i] = Marker]
    /\ UNCHANGED <<template, counted, gen, pools, indices, tuples, yielded, error,
                   bindings, discoveries, clones, pulls>>

NextMut ==
    \/ Next
    \/ \E k \in 1..Len(yielded) : Mutate(k)

SpecMut == Init /\ [][NextMut]_vars

\* C2 (as claimed): a write into the realization of one TemplateRealization
\* (or into a container nested in it, a substituted candidate included)
\* changes neither the template nor the realization or the specification of
\* any other TemplateRealization yielded.
C2_MutationStaysLocal ==
    [][\A k \in 1..Len(yielded) :
          Mutate(k) =>
              /\ DeepVal(heap', template) = DeepVal(heap, template)
              /\ \A j \in 1..Len(yielded) :
                    j # k =>
                      /\ DeepVal(heap', yielded[j].realization)
                            = DeepVal(heap, yielded[j].realization)
                      /\ SpecVal(heap', yielded[j].specification)
                            = SpecVal(heap, yielded[j].specification)]_vars

\* ------------------------------------------------------------------------
\* C11: discovery
\* ------------------------------------------------------------------------

\* A placeholder held by a candidate value.
NestedCandidate == Tree("Candidates", <<>>, <<IntTree(3)>>)

RECURSIVE Nest(_)

\* Tree t where the first candidate of every placeholder holds a placeholder:
\* it is one if it was a scalar, it is a list of one if it was a list.
Nest(t) ==
    IF t.kind \in {"int", "str"} THEN t
    ELSE IF t.kind = "Candidates"
    THEN Tree("Candidates", <<>>,
              [i \in 1..Len(t.items) |->
                  IF i > 1 THEN t.items[i]
                  ELSE IF t.items[i].kind = "list"
                  THEN Tree("list", <<>>, <<NestedCandidate>>)
                  ELSE NestedCandidate])
    ELSE Tree(t.kind, t.keys, [i \in 1..Len(t.items) |-> Nest(t.items[i])])

\* The templates, with placeholders inside the candidate values.
InitDiscovery ==
    \E t \in { Nest(u) : u \in Templates } :
        LET r == Alloc(<<>>, t)
        IN  /\ heap = r.heap
            /\ template = r.ref
            /\ counted = <<>>
            /\ gen = "none"
            /\ pools = <<>>
            /\ indices = <<>>
            /\ tuples = <<>>
            /\ yielded = <<>>
            /\ error = ""
            /\ bindings = <<>>
            /\ discoveries = 0
            /\ clones = 0
            /\ pulls = 0

SpecDiscovery == InitDiscovery /\ [][Next]_vars

RECURSIVE Ranks(_, _)

\* The ranks, in their containers, of the items that path goes through in
\* tree t: the field's rank in the declaration, the index in a sequence, the
\* entry's rank in the iteration of a dict.
Ranks(t, path) ==
    IF path = <<>> THEN <<>>
    ELSE LET i == CHOOSE j \in 1..Len(t.items) : StepOf(t, j) = Head(path)
         IN  <<i>> \o Ranks(t.items[i], Tail(path))

\* a comes before b in a depth-first walk that takes items by rising rank.
Before(a, b) ==
    \E k \in 1..Len(a) :
        /\ k <= Len(b)
        /\ a[k] < b[k]
        /\ \A m \in 1..(k - 1) : a[m] = b[m]

BuiltOnDemand ==
    /\ clones <= pulls
    /\ Len(yielded) <= clones
    /\ clones = Len(tuples)

\* A step carries nothing over but the bindings: it leaves the bindings and
\* the pools made of them as they are once discovered, makes at most one
\* clone, yields at most one item, leaves every object that was there as it
\* was, and touches the heap only if it is a pull.
StepIsOnePull ==
    /\ discoveries > 0 => (bindings' = bindings /\ pools' = pools)
    /\ clones' <= clones + 1
    /\ Len(yielded') <= Len(yielded) + 1
    /\ SubSeq(heap', 1, Len(heap)) = heap
    /\ pulls' = pulls => (heap' = heap /\ clones' = clones /\ yielded' = yielded)
    /\ pulls' # pulls => pulls' = pulls + 1

\* C12 (as claimed): the discovery runs exactly once, eagerly: it has run as
\* soon as realize_template was called, before any item is asked for, and is
\* never run again; each item is cloned and built only when it is pulled.
C12_DiscoveryBeforeAnyPull ==
    /\ gen # "none" => discoveries = 1
    /\ BuiltOnDemand

\* C12 (amended): nothing runs when realize_template is called; the
\* discovery runs exactly once, at the first pull, and is never run again;
\* each item is cloned and built only when it is pulled, at most one clone
\* per pull, and a pull changes nothing that was there before it.
C12_DiscoveryAtFirstPull ==
    /\ [](/\ pulls = 0 => (discoveries = 0 /\ clones = 0 /\ bindings = <<>>)
          /\ pulls > 0 => discoveries = 1
          /\ BuiltOnDemand)
    /\ [][StepIsOnePull]_vars

\* C12 witness: three items were pulled from the generator of a template
\* with one placeholder of two candidates, after one discovery.
C12_Witness ==
    /\ pulls = 3
    /\ discoveries = 1
    /\ clones = 2
    /\ Len(yielded) = 2
    /\ Len(bindings) = 1
    /\ gen = "exhausted"

\* ------------------------------------------------------------------------
\* C13: the caller shrinks the template between two pulls
\* ------------------------------------------------------------------------

RECURSIVE Holders(_, _)

\* The containers of v outside the candidate values.
Holders(h, v) ==
    IF ~IsObj(h, v, {"dataclass", "list", "tuple", "dict"}) THEN {}
    ELSE {v.n} \cup UNION { Holders(h, h[v.n].items[i]) : i \in 1..Len(h[v.n].items) }

\* Between two pulls the caller takes the last item off a list of the
\* template (list.pop()) or the last entry off a dict (dict.popitem()).
Shrink ==
    /\ gen = "suspended"
    /\ \E id \in Holders(heap, template) :
          LET o == heap[id]
          IN  /\ o.kind \in {"list", "dict"}
              /\ o.items # <<>>
              /\ heap' = [heap EXCEPT ![id] =
                              Obj(o.kind, SubSeq(o.keys, 1, Len(o.keys) - 1),
                                  SubSeq(o.items, 1, Len(o.items) - 1))]
    /\ UNCHANGED <<template, counted, gen, pools, indices, tuples, yielded, error,
                   bindings, discoveries, clones, pulls>>

NextShrink ==
    \/ Next
    \/ Shrink

SpecShrink == Init /\ [][NextShrink]_vars

RECURSIVE PathExists(_, _, _)

\* Every step of path, from v, addresses a field, an index or a key that is
\* there.
PathExists(h, v, path) ==
    IF path = <<>> THEN TRUE
    ELSE LET g == _getter(h, v, Head(path))
         IN  g.err = "" /\ PathExists(h, g.val, Tail(path))

\* The exceptions of an access to what is not there.
AccessErrors == {"AttributeError", "IndexError", "KeyError"}

\* C13 (as claimed): a pull that applies a binding whose path addresses, in
\* the template as it is when cloned, a field, an index or a key that is not
\* there ends with an access error, yields nothing for the combination, and
\* leaves every TemplateRealization yielded before as it was.
C13_MissingSlotRaises ==
    [][(/\ Len(tuples') = Len(tuples) + 1
        /\ \E i \in 1..Len(bindings) : ~PathExists(heap, template, bindings[i].path))
       => /\ error' \in AccessErrors
          /\ gen' = "raised"
          /\ yielded' = yielded
          /\ \A k \in 1..Len(yielded) :
                /\ DeepVal(heap', yielded[k].realization)
                      = DeepVal(heap, yielded[k].realization)
                /\ SpecVal(heap', yielded[k].specification)
                      = SpecVal(heap, yielded[k].specification)]_vars

====
